---- MODULE Spec2Model ----
(***************************************************************************)
(* A model of labirinto.py: the maze grid built from a picture, the        *)
(* dead-end elimination of cut_dead_ends and the cycle check of main.      *)
(*                                                                         *)
(* A maze is a list of rows, each a list of Cells, as in the source:       *)
(* maze[y][x] of the source is maze[y + 1][x + 1] here (sequences are      *)
(* 1-based); coordinates (x, y) keep the source's 0-based values.          *)
(***************************************************************************)
EXTENDS Integers, Sequences, FiniteSets

VARIABLES
    img,                      \* the picture after img.point(pixel_preprocessing): rows of RGB triples
    verboseness,              \* options.verboseness
    maze,                     \* the list of lists of Cells
    maze0,                    \* the maze as build_maze_from_image returned it (kept to state the claims)
    pass,                     \* how many times cut_dead_ends has been entered
    dead_ends,                \* cut_dead_ends: the list being filled
    old_dead_ends,            \* cut_dead_ends: the list being iterated
    k,                        \* position of "for x, y in old_dead_ends" (1-based)
    d,                        \* position of "for dir, revdir, xdelta, ydelta in directions" (1-based)
    num_dead_ends_over_time,  \* cut_dead_ends: the counts kept when its verboseness is 1
    line,                     \* main: the row the variable "line" is bound to (0: unbound)
    printed,                  \* the messages main has printed, in order
    pc                        \* where the program is

vars == <<img, verboseness, maze, maze0, pass, dead_ends, old_dead_ends, k, d,
          num_dead_ends_over_time, line, printed, pc>>

(***************************************************************************)
(* Bounds of the model.                                                    *)
(***************************************************************************)
MaxCells == 5      \* mazes of every shape height x width with height * width <= MaxCells
MaxPerfectCells == 8  \* the same for the perfect mazes, which are far fewer
MaxAnyCells == 3   \* the shapes on which every assignment of flags is tried
MaxOutward == 2    \* at most this many open flags that point out of the grid
MaxSpecial == 2    \* at most this many special cells (where the claim does not fix the number)
ImgWidth == 3      \* pixels
ImgHeight == 3     \* pixels

(***************************************************************************)
(* Cell                                                                    *)
(***************************************************************************)
Cell(up, down, left, right, special) ==
    [up |-> up, down |-> down, left |-> left, right |-> right, special |-> special]

\* Booleans are integers in Python: True + True = 2.
AsInt(b) == IF b THEN 1 ELSE 0

\* A count that forgets the special flag.
exits_NoSpecial(cell) ==
    AsInt(cell.up) + AsInt(cell.down) + AsInt(cell.left) + AsInt(cell.right)

exits(cell) ==
    AsInt(cell.up) + AsInt(cell.down) + AsInt(cell.left) + AsInt(cell.right)
        + AsInt(cell.special)

getattr(m, x, y, attr) == m[y + 1][x + 1][attr]

\* An assignment that is lost (made to a copy of the cell).
setattr_Lost(m, x, y, attr, value) == m

setattr(m, x, y, attr, value) == [m EXCEPT ![y + 1][x + 1][attr] = value]

height(m) == Len(m)

width(m) == Len(m[1])

directions ==
    << [dir |-> "up",    revdir |-> "down",  xdelta |-> 0,  ydelta |-> -1],
       [dir |-> "down",  revdir |-> "up",    xdelta |-> 0,  ydelta |-> 1],
       [dir |-> "left",  revdir |-> "right", xdelta |-> -1, ydelta |-> 0],
       [dir |-> "right", revdir |-> "left",  xdelta |-> 1,  ydelta |-> 0] >>

(***************************************************************************)
(* cut_dead_ends                                                           *)
(***************************************************************************)
\* The condition under which a cell is put on the dead-end list.
IsDeadEnd(cell) == exits(cell) = 1

\* Lines 274-278: the scan, column by column (i outer, j inner).
ScanDeadEnds(m) ==
    LET h == height(m)
        w == width(m)
        coords == [n \in 1..(w * h) |-> <<(n - 1) \div h, (n - 1) % h>>]
    IN  SelectSeq(coords, LAMBDA c : IsDeadEnd(m[c[2] + 1][c[1] + 1]))

\* Line 304: the neighbour at (x2, y2) is a cell of the grid.
InBounds(m, x2, y2) == 0 <= x2 /\ x2 < width(m) /\ 0 <= y2 /\ y2 < height(m)

\* The neighbour is left as it is.
ClearMirror_Skipped(m, x2, y2, revdir) == m

\* The neighbour's flag is set instead of cleared.
ClearMirror_Sets(m, x2, y2, revdir) == setattr(m, x2, y2, revdir, TRUE)

\* Lines 305-306: the neighbour's mirrored flag is cleared.
ClearMirror(m, x2, y2, revdir) == setattr(m, x2, y2, revdir, FALSE)

\* The neighbour is never put on the list.
AppendIfDeadEnd_Never(m, dead, x2, y2) == dead

\* Lines 307-308: the neighbour is put on the list if it has become a dead end.
AppendIfDeadEnd(m, dead, x2, y2) ==
    IF IsDeadEnd(m[y2 + 1][x2 + 1]) THEN Append(dead, <<x2, y2>>) ELSE dead

\* Lines 300-308: one iteration of the loop over directions, for the cell at
\* (x, y) and the direction directions[i]; s is [maze, dead_ends].
StepDirection(s, x, y, i) ==
    LET dr == directions[i]
        x2 == x + dr.xdelta
        y2 == y + dr.ydelta
        m1 == setattr(s.maze, x, y, dr.dir, FALSE)
        m2 == ClearMirror(m1, x2, y2, dr.revdir)
    IN  IF ~getattr(s.maze, x, y, dr.dir)
        THEN s
        ELSE IF InBounds(s.maze, x2, y2)
             THEN [maze |-> m2, dead_ends |-> AppendIfDeadEnd(m2, s.dead_ends, x2, y2)]
             ELSE [maze |-> m1, dead_ends |-> s.dead_ends]

\* Lines 291-308 for one element of old_dead_ends: the four directions in order.
ProcessCell(s, x, y) ==
    StepDirection(StepDirection(StepDirection(StepDirection(s, x, y, 1), x, y, 2), x, y, 3), x, y, 4)

\* Lines 291-308: a whole round over the list old.
RECURSIVE ProcessRound(_, _, _)
ProcessRound(s, old, i) ==
    IF i > Len(old) THEN s
    ELSE ProcessRound(ProcessCell(s, old[i][1], old[i][2]), old, i + 1)

\* An "if" in place of the "while": a single round.
WhileDeadEnds_Once(m, dead) ==
    IF dead = <<>> THEN m
    ELSE ProcessRound([maze |-> m, dead_ends |-> <<>>], dead, 1).maze

\* Lines 282-308: the while loop, from a maze and its list of dead ends.
RECURSIVE WhileDeadEnds(_, _)
WhileDeadEnds(m, dead) ==
    IF dead = <<>> THEN m
    ELSE LET s == ProcessRound([maze |-> m, dead_ends |-> <<>>], dead, 1)
         IN  WhileDeadEnds(s.maze, s.dead_ends)

\* cut_dead_ends as a function of the maze it is given: the maze it leaves.
CutDeadEnds(m) == WhileDeadEnds(m, ScanDeadEnds(m))

\* The positions (k2, d2) at or after (k, d), in iteration order, at which the
\* test of line 300 succeeds on the maze m.
OpenFrom(m, old, k1, d1) ==
    {p \in (k1..Len(old)) \X (1..4) :
        /\ (p[1] > k1 \/ p[2] >= d1)
        /\ getattr(m, old[p[1]][1], old[p[1]][2], directions[p[2]].dir)}

\* The first of them: the iterations before it change nothing.
FirstOpen(m, old, k1, d1) ==
    CHOOSE p \in OpenFrom(m, old, k1, d1) :
        \A q \in OpenFrom(m, old, k1, d1) : 4 * p[1] + p[2] <= 4 * q[1] + q[2]

\* The verboseness cut_dead_ends is called with (lines 348 and 361).
CutVerboseness == IF pass = 1 THEN verboseness - 1 ELSE 0

\* Lines 270-280: cut_dead_ends is entered and scans the maze.
Scan ==
    /\ pc = "scan"
    /\ IF Len(maze) = 0
       THEN /\ pc' = "IndexError"           \* len(maze[0]) on an empty list
            /\ UNCHANGED <<dead_ends>>
       ELSE /\ dead_ends' = ScanDeadEnds(maze)
            /\ pc' = "while"
    /\ pass' = pass + 1
    /\ num_dead_ends_over_time' = <<>>
    /\ UNCHANGED <<img, verboseness, maze, maze0, old_dead_ends, k, d, line, printed>>

\* Lines 282-289: the loop test succeeds and a round starts.
RoundStart ==
    /\ pc = "while"
    /\ dead_ends # <<>>
    /\ num_dead_ends_over_time' =
          IF CutVerboseness = 1
          THEN Append(num_dead_ends_over_time, Len(dead_ends))
          ELSE num_dead_ends_over_time
    /\ old_dead_ends' = dead_ends
    /\ dead_ends' = <<>>
    /\ k' = 1
    /\ d' = 1
    /\ pc' = "for"
    /\ UNCHANGED <<img, verboseness, maze, maze0, pass, line, printed>>

\* Lines 299-308: the loops advance to the next direction whose flag is set and
\* the flag, and the neighbour's mirrored flag, are cleared.
ClearDirection ==
    /\ pc = "for"
    /\ OpenFrom(maze, old_dead_ends, k, d) # {}
    /\ LET p == FirstOpen(maze, old_dead_ends, k, d)
           s == StepDirection([maze |-> maze, dead_ends |-> dead_ends],
                              old_dead_ends[p[1]][1], old_dead_ends[p[1]][2], p[2])
       IN  /\ maze' = s.maze
           /\ dead_ends' = s.dead_ends
           /\ k' = p[1]
           /\ d' = p[2] + 1
    /\ UNCHANGED <<img, verboseness, maze0, pass, old_dead_ends,
                   num_dead_ends_over_time, line, printed, pc>>

\* Lines 291-311: no flag is left to clear in this round; the round ends.
RoundEnd ==
    /\ pc = "for"
    /\ OpenFrom(maze, old_dead_ends, k, d) = {}
    /\ pc' = "while"
    /\ UNCHANGED <<img, verboseness, maze, maze0, pass, dead_ends, old_dead_ends, k, d,
                   num_dead_ends_over_time, line, printed>>

\* Lines 282, 313-315 and main 350-352: the list is empty, cut_dead_ends returns.
CutReturn ==
    /\ pc = "while"
    /\ dead_ends = <<>>
    /\ IF CutVerboseness = 1 /\ num_dead_ends_over_time # <<>>
       THEN /\ pc' = "TypeError"            \* ', '.join of a list of integers
            /\ UNCHANGED printed
       ELSE IF pass = 1
       THEN /\ pc' = "clear_special"
            /\ printed' = Append(printed, "Solution:")
       ELSE /\ pc' = "check"
            /\ UNCHANGED printed
    /\ UNCHANGED <<img, verboseness, maze, maze0, pass, dead_ends, old_dead_ends, k, d,
                   num_dead_ends_over_time, line>>

(***************************************************************************)
(* main                                                                    *)
(***************************************************************************)
\* Lines 357-361: every special flag is cleared, "line" stays bound to the
\* last row, and cut_dead_ends is called again.
ClearSpecial ==
    /\ pc = "clear_special"
    /\ maze' = [y \in 1..Len(maze) |->
                   [x \in 1..Len(maze[y]) |-> [maze[y][x] EXCEPT !.special = FALSE]]]
    /\ line' = Len(maze)
    /\ pc' = "scan"
    /\ UNCHANGED <<img, verboseness, maze0, pass, dead_ends, old_dead_ends, k, d,
                   num_dead_ends_over_time, printed>>

\* Line 363: any(cell.exits != 0 for cell in line for line in maze). The first
\* iterable of a generator expression is evaluated where the expression
\* stands, so "line" there is main's variable.
AnyExits(m, ln) ==
    \E x \in 1..Len(m[ln]) : \E l \in 1..Len(m) : exits(m[ln][x]) # 0

\* Lines 363-368.
CycleCheck ==
    /\ pc = "check"
    /\ IF line = 0
       THEN /\ pc' = "NameError"
            /\ UNCHANGED printed
       ELSE /\ pc' = "done"
            /\ printed' =
                  IF AnyExits(maze, line)
                  THEN Append(printed, "This maze contains cycles.")
                  ELSE IF verboseness >= 2
                       THEN Append(printed, "This maze does not contain cycles.")
                       ELSE printed
    /\ UNCHANGED <<img, verboseness, maze, maze0, pass, dead_ends, old_dead_ends, k, d,
                   num_dead_ends_over_time, line>>

\* One call of cut_dead_ends, and main from its first call of it.
NextCut == Scan \/ RoundStart \/ ClearDirection \/ RoundEnd \/ CutReturn

Next == NextCut \/ ClearSpecial \/ CycleCheck

(***************************************************************************)
(* From the picture to the maze.  img.getpixel((px, py)) is               *)
(* img[py + 1][px + 1].                                                    *)
(***************************************************************************)
Black == <<0, 0, 0>>

White == <<255, 255, 255>>

Red == <<255, 0, 0>>

getpixel(im, px, py) == im[py + 1][px + 1]

\* Lines 92-114: the number of lines, counted from the first, that are wholly
\* white; lines is the list of lines from one edge inwards.
RECURSIVE find_white_lines(_, _)
find_white_lines(lines, index) ==
    IF index < Len(lines) /\ \A i \in 1..Len(lines[index + 1]) : lines[index + 1][i] = White
    THEN find_white_lines(lines, index + 1)
    ELSE index

\* Lines 116-136.
find_white_border(im) ==
    LET h == Len(im)
        w == Len(im[1])
        rows == im
        cols == [x \in 1..w |-> [y \in 1..h |-> im[y][x]]]
    IN  [top    |-> find_white_lines(rows, 0),
         bottom |-> find_white_lines([i \in 1..h |-> rows[h + 1 - i]], 0),
         left   |-> find_white_lines(cols, 0),
         right  |-> find_white_lines([i \in 1..w |-> cols[w + 1 - i]], 0)]

\* Line 336: img.crop((left, top, width - right, height - bottom)).
crop(im, b) ==
    LET h == Len(im)
        w == Len(im[1])
    IN  [y \in 1..(h - b.bottom - b.top) |->
            [x \in 1..(w - b.right - b.left) |-> im[y + b.top][x + b.left]]]

\* Lines 147-174. amount > width/3.0 is 3 * amount > width.
find_walls(im) ==
    LET h == Len(im)
        w == Len(im[1])
        blacks_per_line == [y \in 1..h |-> Cardinality({x \in 1..w : im[y][x] = Black})]
        blacks_per_col == [x \in 1..w |-> Cardinality({y \in 1..h : im[y][x] = Black})]
        lines == [i \in 1..h |-> i - 1]
        columns == [i \in 1..w |-> i - 1]
    IN  [wall_rows |-> SelectSeq(lines, LAMBDA i : 3 * blacks_per_line[i + 1] > w),
         wall_cols |-> SelectSeq(columns, LAMBDA i : 3 * blacks_per_col[i + 1] > h)]

\* Lines 226-258. range(n) is empty for n <= 0, and so is 1..n.
build_maze_from_image(im) ==
    LET wall_rows == find_walls(im).wall_rows
        wall_cols == find_walls(im).wall_cols
        w == Len(wall_cols) - 1
        h == Len(wall_rows) - 1
    IN  [j \in 1..h |-> [i \in 1..w |->
            LET x == wall_cols[i]
                xn == wall_cols[i + 1]
                y == wall_rows[j]
                yn == wall_rows[j + 1]
            IN  Cell(getpixel(im, (x + xn) \div 2, y) # Black,
                     getpixel(im, (x + xn) \div 2, yn) # Black,
                     getpixel(im, x, (y + yn) \div 2) # Black,
                     getpixel(im, xn, (y + yn) \div 2) # Black,
                     getpixel(im, (x + xn) \div 2, (y + yn) \div 2) \notin {Black, White})]]

\* Lines 332-337: the white border is cropped.
AutoCrop ==
    /\ pc = "crop"
    /\ img' = crop(img, find_white_border(img))
    /\ pc' = "build"
    /\ UNCHANGED <<verboseness, maze, maze0, pass, dead_ends, old_dead_ends, k, d,
                   num_dead_ends_over_time, line, printed>>

\* Lines 342-348: the maze is built and printed, and cut_dead_ends is called.
BuildMaze ==
    /\ pc = "build"
    /\ maze' = build_maze_from_image(img)
    /\ maze0' = maze'
    /\ printed' = IF verboseness >= 1 THEN Append(printed, "Raw maze:") ELSE printed
    /\ pc' = "scan"
    /\ UNCHANGED <<img, verboseness, pass, dead_ends, old_dead_ends, k, d,
                   num_dead_ends_over_time, line>>

NextImage == AutoCrop \/ BuildMaze \/ Next

(***************************************************************************)
(* The mazes the program is run on.  A flag is <<x, y, dir>>: the flag dir *)
(* of the cell at (x, y).                                                  *)
(***************************************************************************)
DirNames == {"up", "down", "left", "right"}

Delta(dir) == CHOOSE r \in {directions[i] : i \in 1..4} : r.dir = dir

Shapes == {s \in (1..MaxCells) \X (1..MaxCells) : s[1] * s[2] <= MaxCells}

Coords(h, w) == (0..(w - 1)) \X (0..(h - 1))

Inside(h, w, x, y) == 0 <= x /\ x < w /\ 0 <= y /\ y < h

Flags(h, w) == {<<c[1], c[2], dir>> : c \in Coords(h, w), dir \in DirNames}

\* The cell a flag leads to, and the flag of that cell that leads back.
Target(f) == <<f[1] + Delta(f[3]).xdelta, f[2] + Delta(f[3]).ydelta>>

Mirror(f) == <<Target(f)[1], Target(f)[2], Delta(f[3]).revdir>>

InwardFlags(h, w) == {f \in Flags(h, w) : Inside(h, w, Target(f)[1], Target(f)[2])}

OutwardFlags(h, w) == Flags(h, w) \ InwardFlags(h, w)

\* One flag for each pair of adjacent cells.
Connections(h, w) == {f \in InwardFlags(h, w) : f[3] \in {"right", "down"}}

RECURSIVE UpTo(_, _)
UpTo(S, n) ==
    IF n = 0 THEN {{}}
    ELSE LET P == UpTo(S, n - 1) IN P \cup {T \cup {a} : T \in P, a \in S}

\* The maze of h rows and w columns whose set flags are open and whose
\* special cells are specials.
MazeOf(h, w, open, specials) ==
    [y \in 1..h |-> [x \in 1..w |->
        Cell(<<x - 1, y - 1, "up">> \in open, <<x - 1, y - 1, "down">> \in open,
             <<x - 1, y - 1, "left">> \in open, <<x - 1, y - 1, "right">> \in open,
             <<x - 1, y - 1>> \in specials)]]

\* Both flags of every connection of E.
BothWays(E) == E \cup {Mirror(e) : e \in E}

(***************************************************************************)
(* Words of the claims.                                                    *)
(***************************************************************************)
CellsOf(m) == Coords(Len(m), Len(m[1]))

At(m, c) == m[c[2] + 1][c[1] + 1]

InwardOf(m) == InwardFlags(Len(m), Len(m[1]))

OutwardOf(m) == OutwardFlags(Len(m), Len(m[1]))

IsOpen(m, f) == getattr(m, f[1], f[2], f[3])

\* Adjacent cells agree on their shared connection.
AdjacentAgree(m) ==
    /\ \A y \in 1..Len(m) : \A x \in 1..(Len(m[y]) - 1) : m[y][x].right = m[y][x + 1].left
    /\ \A y \in 1..(Len(m) - 1) : \A x \in 1..Len(m[y]) : m[y][x].down = m[y + 1][x].up

\* The cells a step away from c through a connection open on both sides,
\* every cell of the set without left out.
Steps(m, c, without) ==
    {<<c[1] + directions[i].xdelta, c[2] + directions[i].ydelta>> :
        i \in {j \in 1..4 :
            LET x2 == c[1] + directions[j].xdelta
                y2 == c[2] + directions[j].ydelta
            IN  /\ InBounds(m, x2, y2)
                /\ getattr(m, c[1], c[2], directions[j].dir)
                /\ getattr(m, x2, y2, directions[j].revdir)
                /\ <<x2, y2>> \notin without}}

RECURSIVE Grow(_, _, _)
Grow(m, seen, without) ==
    LET more == UNION {Steps(m, c, without) : c \in seen} \ seen
    IN  IF more = {} THEN seen ELSE Grow(m, seen \cup more, without)

\* The cells connected to c, c included.
Component(m, c) == Grow(m, {c}, {})

\* The open connections of m, one flag each, and those among them that lie on
\* a cycle: the two ends stay connected when the connection is closed.
OpenConnections(m) ==
    {f \in {<<x, y, "right">> : x \in 0..(width(m) - 2), y \in 0..(height(m) - 1)} :
        IsOpen(m, f) /\ IsOpen(m, <<f[1] + 1, f[2], "left">>)}
    \cup
    {f \in {<<x, y, "down">> : x \in 0..(width(m) - 1), y \in 0..(height(m) - 2)} :
        IsOpen(m, f) /\ IsOpen(m, <<f[1], f[2] + 1, "up">>)}

Closed(m, f) ==
    setattr(setattr(m, f[1], f[2], f[3], FALSE),
            Mirror(f)[1], Mirror(f)[2], Mirror(f)[3], FALSE)

OnCycle(m, f) == Target(f) \in Component(Closed(m, f), <<f[1], f[2]>>)

Acyclic(m) == \A f \in OpenConnections(m) : ~OnCycle(m, f)

\* The flags of the cells of C that point out of the grid and are open.
OpenOutward(m, C) ==
    {f \in Flags(height(m), width(m)) :
        /\ <<f[1], f[2]>> \in C
        /\ IsOpen(m, f)
        /\ ~InBounds(m, f[1] + Delta(f[3]).xdelta, f[2] + Delta(f[3]).ydelta)}

Connected(m) == Component(m, <<0, 0>>) = CellsOf(m)

SpecialCells(m) == {c \in CellsOf(m) : At(m, c).special}

\* Adjacent cells agree, the outer border is closed and the open connections
\* form a spanning tree.
Perfect(m) ==
    /\ AdjacentAgree(m)
    /\ OpenOutward(m, CellsOf(m)) = {}
    /\ Connected(m)
    /\ Cardinality(OpenConnections(m)) = Cardinality(CellsOf(m)) - 1

\* A perfect maze with one extra connection opened between two adjacent cells.
PerfectPlusOne(m) ==
    /\ AdjacentAgree(m)
    /\ OpenOutward(m, CellsOf(m)) = {}
    /\ Connected(m)
    /\ Cardinality(OpenConnections(m)) = Cardinality(CellsOf(m))

\* The cells of the path between the special cells of a perfect maze: the
\* special cells, and the cells without which they are not connected.
PathCells(m) ==
    {c \in CellsOf(m) :
        \/ c \in SpecialCells(m)
        \/ \E a \in SpecialCells(m) : SpecialCells(m) \ Grow(m, {a}, {c}) # {}}

\* The cells of the loops: the ends of the connections that lie on a cycle.
LoopCells(m) ==
    {c \in CellsOf(m) :
        \E f \in OpenConnections(m) :
            /\ c \in {<<f[1], f[2]>>, Target(f)}
            /\ OnCycle(m, f)}

AllZero(m) == \A c \in CellsOf(m) : exits(At(m, c)) = 0

\* The loop of line 282 has just found the list empty: cut_dead_ends terminates.
Terminated == pc = "while" /\ dead_ends = <<>>

Reported(msg) == \E i \in 1..Len(printed) : printed[i] = msg

\* What survives of the program's state once build_maze_from_image returned m.
Built(m) ==
    /\ img = <<>>
    /\ maze = m
    /\ maze0 = m
    /\ pass = 0
    /\ dead_ends = <<>>
    /\ old_dead_ends = <<>>
    /\ k = 1
    /\ d = 1
    /\ num_dead_ends_over_time = <<>>
    /\ line = 0
    /\ printed = IF verboseness >= 1 THEN <<"Raw maze:">> ELSE <<>>
    /\ pc = "scan"

DefaultVerboseness == 1

\* For each shape: the sets of open connections, of open outward flags and of
\* special cells the mazes are drawn from.
\* build_maze_from_image samples the two cells of a border at the same pixel,
\* so in the mazes it returns adjacent cells agree: both flags of every open
\* connection are set.
ConnectionSets == [s \in Shapes |-> {BothWays(E) : E \in SUBSET Connections(s[1], s[2])}]

OutwardSets == [s \in Shapes |-> UpTo(OutwardFlags(s[1], s[2]), MaxOutward)]

SpecialSets == [s \in Shapes |-> UpTo(Coords(s[1], s[2]), MaxSpecial)]

\* The mazes build_maze_from_image can return, up to the bounds.
Init ==
    /\ verboseness = DefaultVerboseness
    /\ \E s \in Shapes :
         \E E \in ConnectionSets[s] :
            \E O \in OutwardSets[s] :
               \E S \in SpecialSets[s] :
                  Built(MazeOf(s[1], s[2], E \cup O, S))

Spec == Init /\ [][Next]_vars

\* The perfect mazes: no open flag points out of the grid and the open
\* connections form a spanning tree (cells - 1 connections, all cells
\* connected), with extra further connections opened.
PerfectShapes ==
    {s \in (1..MaxPerfectCells) \X (1..MaxPerfectCells) : s[1] * s[2] <= MaxPerfectCells}

TreePlus(s, E, extra) ==
    /\ Cardinality(E) = s[1] * s[2] - 1 + extra
    /\ Grow(MazeOf(s[1], s[2], BothWays(E), {}), {<<0, 0>>}, {}) = Coords(s[1], s[2])

\* A perfect maze with two distinct special cells: the start and the finish.
InitPerfect ==
    /\ verboseness = DefaultVerboseness
    /\ \E s \in PerfectShapes :
         \E E \in SUBSET Connections(s[1], s[2]) :
            /\ TreePlus(s, E, 0)
            /\ \E S \in UpTo(Coords(s[1], s[2]), 2) :
                  /\ Cardinality(S) = 2
                  /\ Built(MazeOf(s[1], s[2], BothWays(E), S))

SpecPerfect == InitPerfect /\ [][Next]_vars

\* A perfect maze with one more connection opened, and any special cells.
InitLoop ==
    /\ verboseness = DefaultVerboseness
    /\ \E s \in PerfectShapes :
         \E E \in SUBSET Connections(s[1], s[2]) :
            /\ TreePlus(s, E, 1)
            /\ \E S \in UpTo(Coords(s[1], s[2]), MaxSpecial) :
                  Built(MazeOf(s[1], s[2], BothWays(E), S))

SpecLoop == InitLoop /\ [][Next]_vars

\* The whole of main, from a picture already put through pixel_preprocessing:
\* every picture of ImgHeight rows of ImgWidth pixels, black, white or red,
\* that is not all white.
Pixels == {Black, White, Red}

InitImage ==
    /\ img \in [1..ImgHeight -> [1..ImgWidth -> Pixels]]
    /\ img # [y \in 1..ImgHeight |-> [x \in 1..ImgWidth |-> White]]
    /\ verboseness \in 0..3
    /\ maze = <<>>
    /\ maze0 = <<>>
    /\ pass = 0
    /\ dead_ends = <<>>
    /\ old_dead_ends = <<>>
    /\ k = 1
    /\ d = 1
    /\ num_dead_ends_over_time = <<>>
    /\ line = 0
    /\ printed = <<>>
    /\ pc = "crop"

SpecImage == InitImage /\ [][NextImage]_vars

\* Dead-end elimination in any order: the list is a work-list from which any
\* element is taken next, whether it was queued in this round or the next.
AnyProcess ==
    /\ pc = "while"
    /\ \E i \in 1..Len(dead_ends) :
          LET rest == [j \in 1..(Len(dead_ends) - 1) |->
                          IF j < i THEN dead_ends[j] ELSE dead_ends[j + 1]]
              s == ProcessCell([maze |-> maze, dead_ends |-> rest],
                               dead_ends[i][1], dead_ends[i][2])
          IN  /\ maze' = s.maze
              /\ dead_ends' = s.dead_ends
    /\ UNCHANGED <<img, verboseness, maze0, pass, old_dead_ends, k, d,
                   num_dead_ends_over_time, line, printed, pc>>

AnyDone ==
    /\ pc = "while"
    /\ dead_ends = <<>>
    /\ pc' = "done"
    /\ UNCHANGED <<img, verboseness, maze, maze0, pass, dead_ends, old_dead_ends, k, d,
                   num_dead_ends_over_time, line, printed>>

NextOrder == Scan \/ AnyProcess \/ AnyDone

SpecOrder == Init /\ [][NextOrder]_vars

\* cut_dead_ends takes any list of lists of Cells: every assignment of the five
\* flags of every cell, on the smallest shapes.
AnyCell == [up : BOOLEAN, down : BOOLEAN, left : BOOLEAN, right : BOOLEAN, special : BOOLEAN]

AnyShapes == {s \in (1..MaxAnyCells) \X (1..MaxAnyCells) : s[1] * s[2] <= MaxAnyCells}

InitAny ==
    /\ verboseness = DefaultVerboseness
    /\ \E s \in AnyShapes : \E m \in [1..s[1] -> [1..s[2] -> AnyCell]] : Built(m)

\* One call of cut_dead_ends on such a grid, up to its return.
SpecAny == InitAny /\ [][NextCut]_vars

\* The program is sequential: it takes its next step as long as it has one.
SpecAnyFair == SpecAny /\ WF_vars(NextCut)

RECURSIVE SumRow(_, _)
SumRow(row, n) == IF n = 0 THEN 0 ELSE exits(row[n]) + SumRow(row, n - 1)

RECURSIVE SumRows(_, _)
SumRows(m, n) == IF n = 0 THEN 0 ELSE SumRow(m[n], Len(m[n])) + SumRows(m, n - 1)

\* The sum of the exit counts of all cells.
TotalExits(m) == SumRows(m, Len(m))

(***************************************************************************)
(* The claims.                                                             *)
(***************************************************************************)

\* C1: once the second pass has finished and the cycle check has run, main has
\* reported "This maze contains cycles." if and only if some cell of the grid,
\* in whatever row, has a nonzero exit count.
C1_ReportsIffAnyExit ==
    pc = "done" => (Reported("This maze contains cycles.") <=> ~AllZero(maze))

\* C2: for a perfect maze with exactly two special cells, when the first pass
\* terminates a cell has a nonzero exit count if and only if it lies on the
\* path between the two special cells, these two included.
C2_ExactlyThePathSurvives ==
    (Terminated /\ pass = 1 /\ Perfect(maze0) /\ Cardinality(SpecialCells(maze0)) = 2) =>
        \A c \in CellsOf(maze) : exits(At(maze, c)) # 0 <=> c \in PathCells(maze0)

\* C2's case: the first pass has terminated on a perfect maze, has cut cells
\* off, and left a path of at least three cells.
C2_Witness ==
    /\ Terminated
    /\ pass = 1
    /\ Perfect(maze0)
    /\ Cardinality(SpecialCells(maze0)) = 2
    /\ Cardinality(PathCells(maze0)) >= 3
    /\ \E c \in CellsOf(maze) : exits(At(maze0, c)) # 0 /\ exits(At(maze, c)) = 0

\* C4: for a perfect maze with one extra connection opened, when the second
\* pass terminates the cells with a nonzero exit count are exactly the cells of
\* the loop, each with an exit count of at least 2.
C4_ExactlyTheLoopSurvives ==
    (Terminated /\ pass = 2 /\ PerfectPlusOne(maze0)) =>
        \A c \in CellsOf(maze) :
            /\ exits(At(maze, c)) # 0 <=> c \in LoopCells(maze0)
            /\ exits(At(maze, c)) # 0 => exits(At(maze, c)) >= 2

\* C4's case: the second pass has terminated on such a maze, some cells were
\* off the loop and a special cell was on it.
C4_Witness ==
    /\ Terminated
    /\ pass = 2
    /\ PerfectPlusOne(maze0)
    /\ LoopCells(maze0) # CellsOf(maze0)
    /\ SpecialCells(maze0) \cap LoopCells(maze0) # {}
    /\ \E c \in CellsOf(maze) : exits(At(maze, c)) >= 2

\* C5: when fewer than two wall rows or fewer than two wall columns are found,
\* cut_dead_ends is never started and no solution is reported.
C5_MalformedNeverSolved ==
    (pc \notin {"crop", "build"}
        /\ (Len(find_walls(img).wall_rows) < 2 \/ Len(find_walls(img).wall_cols) < 2)) =>
            pass = 0 /\ ~Reported("Solution:")

\* C10: from a grid in which adjacent cells agree, dead-end elimination taken in
\* any order ends in the grid cut_dead_ends leaves.
C10_AnyOrderSameGrid ==
    (pc = "done" /\ AdjacentAgree(maze0)) => maze = CutDeadEnds(maze0)

\* C10's case: an elimination that took its dead ends from the work-list in
\* whatever order has ended, after clearing at least four flags.
C10_Witness ==
    /\ pc = "done"
    /\ AdjacentAgree(maze0)
    /\ TotalExits(maze) + 4 <= TotalExits(maze0)

\* The steps of the program and the function CutDeadEnds describe the same
\* cut_dead_ends: when the first call terminates, the maze is CutDeadEnds of
\* the maze it was given.
StepsAgreeWithFunction ==
    (Terminated /\ pass = 1) => maze = CutDeadEnds(maze0)

\* C3: for a maze without cycles in which adjacent cells agree, whatever its
\* outward flags, after the first pass, the clearing of the special flags and
\* the second pass every cell has exit count 0.
C3_AcyclicCollapses ==
    (pc = "check" /\ AdjacentAgree(maze0) /\ Acyclic(maze0)) => AllZero(maze)

\* What is left to do in a call of cut_dead_ends.  OpenFlags counts the
\* directional flags that are set; LoopRank falls with every step of the while
\* loop, because a round that lengthens the list has cleared a flag.
OpenFlags(m) == TotalExits(m) - Cardinality(SpecialCells(m))

LoopRank ==
    4 * OpenFlags(maze)
        + (IF pc = "for" THEN (IF dead_ends # <<>> THEN 3 ELSE 1)
           ELSE IF pc = "while" THEN (IF dead_ends # <<>> THEN 2 ELSE 0)
           ELSE 3)

\* cut_dead_ends has returned to main.
Returned == pc \in {"clear_special", "check"}

Rank ==
    IF Returned THEN 0
    ELSE IF pc = "scan" THEN 16 * Cardinality(CellsOf(maze)) + 5
    ELSE LoopRank + 1

\* C6: cut_dead_ends terminates on every grid of at least one row and column,
\* adjacent cells agreeing or not: every step lowers Rank, which is never
\* negative, and the list of dead ends becomes empty, so that cut_dead_ends
\* returns.
C6_Terminates ==
    /\ [][Rank' < Rank /\ Rank' >= 0]_vars
    /\ <>Returned

\* C6's case: a call of cut_dead_ends on a grid whose adjacent cells disagree
\* has gone through a round and found the list empty.
C6_Witness ==
    /\ Terminated
    /\ pass = 1
    /\ ~AdjacentAgree(maze0)
    /\ old_dead_ends # <<>>

\* C7 as stated: when cut_dead_ends terminates no cell has an exit count of
\* exactly 1, the special flag counted.
C7_NoCellWithOneExit ==
    Terminated => \A c \in CellsOf(maze) : exits(At(maze, c)) # 1

\* C7 as amended: when cut_dead_ends terminates, a cell whose exit count is
\* exactly 1 has no directional flag set: its one exit is its special flag.
C7_OneExitIsSpecialOnly ==
    Terminated =>
        \A c \in CellsOf(maze) :
            exits(At(maze, c)) = 1 =>
                /\ At(maze, c).special
                /\ \A dir \in DirNames : ~At(maze, c)[dir]

\* C7's case: the first pass has terminated after cutting dead ends, and a
\* special cell is left with its special flag alone.
C7_Witness ==
    /\ Terminated
    /\ pass = 1
    /\ maze # maze0
    /\ \E c \in CellsOf(maze) :
          /\ exits(At(maze, c)) = 1
          /\ exits(At(maze0, c)) > 1

\* C8: from a grid in which adjacent cells agree, after every direction-clearing
\* step of cut_dead_ends every pair of adjacent cells still agrees.
C8_AgreementKept == AdjacentAgree(maze0) => AdjacentAgree(maze)

\* C8's case: a direction-clearing step has closed a connection between two
\* cells of the grid.
C8_Witness ==
    /\ pc = "for"
    /\ \E y \in 1..Len(maze) : \E x \in 1..(Len(maze[y]) - 1) :
          maze0[y][x].right /\ ~maze[y][x].right /\ ~maze[y][x + 1].left

\* C9: in a step of the program no directional flag goes from false to true and
\* the sum of the exit counts does not grow; a round is a sequence of such
\* steps, so the sum at its end is at most the sum at its start.
C9_FlagsOnlyCleared ==
    [][ /\ \A y \in 1..Len(maze) : \A x \in 1..Len(maze[y]) : \A dir \in DirNames :
              maze'[y][x][dir] => maze[y][x][dir]
        /\ TotalExits(maze') <= TotalExits(maze) ]_vars

\* C9's case: a round has ended in which flags were cleared and the sum of the
\* exit counts fell.
C9_Witness ==
    /\ pc = "while"
    /\ pass = 1
    /\ old_dead_ends # <<>>
    /\ TotalExits(maze) < TotalExits(maze0)

====
